---- MODULE Spec2Model ----
(***************************************************************************)
(* A model of psfpy/fitter.py: the patch collection (PatchCollectionABC),  *)
(* coordinate based extraction, region averaging and the per-patch fit     *)
(* loop (CoordinatePatchCollection).                                       *)
(*                                                                         *)
(* A patch (numpy array) is a record [shape |-> <<rows, cols>>, data |->   *)
(* function on (0..rows-1) \X (0..cols-1)].  A collection is its dict      *)
(* `_patches` (insertion ordered: `order` lists the keys, `patches` maps   *)
(* them) and its `_size`.  An identifier (CoordinateIdentifier) is the     *)
(* tuple <<image_index, x, y>>.                                            *)
(***************************************************************************)
EXTENDS Integers, Sequences, FiniteSets, TLC

VARIABLES
    order,      \* self._patches: its keys, in insertion order
    patches,    \* self._patches: identifier -> patch
    size,       \* self._size
    first,      \* history: <<shape>> of the first patch ever added to self, else <<>>
    op,         \* the last call made
    arg,        \* the arguments of the last call
    warnings,   \* number of warnings the last call emitted
    result,     \* "ok", or the exception the last call raised
    out,        \* the collection returned by the last call to average
    bins,       \* average: per corner key, the identifiers accumulated into it
    fits        \* the dict returned by the last call to _fit_lmfit

vars == <<order, patches, size, first, op, arg, warnings, result, out, bins, fits>>

(***************************************************************************)
(* Bounds of the model.                                                    *)
(***************************************************************************)
MaxSide == 2        \* side lengths of the patches given to add: 1..MaxSide
MaxIdx == 1         \* identifiers given to add: <<0, 0, 0>> .. <<0, MaxIdx, 0>>
MaxSize == 2        \* extract: size is in 1..MaxSize
MaxCoords == 1      \* extract: at most MaxCoords coordinates
MaxStore == 2       \* average, fit: at most MaxStore patches in the collection
MaxCorners == 2     \* average: at most MaxCorners rows in corners

(***************************************************************************)
(* Python values.                                                          *)
(***************************************************************************)
\* None, for _size and for the image_index of an averaged patch; every size
\* and every image index of the program is >= 0.
None == -1

Max(a, b) == IF a >= b THEN a ELSE b
Min(a, b) == IF a <= b THEN a ELSE b

\* d[k] = v on a dict held as a function
Put(d, k, v) == [x \in (DOMAIN d) \cup {k} |-> IF x = k THEN v ELSE d[x]]

\* the empty dict
EmptyDict == [x \in {} |-> 0]

\* a rows x cols array filled with v (np.zeros((size, size)) when v is zero)
Full(rows, cols, v) ==
    [shape |-> <<rows, cols>>,
     data |-> [p \in (0 .. rows - 1) \X (0 .. cols - 1) |-> v]]

(***************************************************************************)
(* PatchCollectionABC                                                      *)
(***************************************************************************)
\* __init__(patches): _size is shape[0] of the first value of the dict
New(ord, d) ==
    [order |-> ord,
     patches |-> d,
     size |-> IF Len(ord) > 0 THEN d[ord[1]].shape[1] ELSE None]

\* __len__
Length(st) == Cardinality(DOMAIN st.patches)

\* __contains__
Contains(st, identifier) == identifier \in DOMAIN st.patches

\* add without the overwrite warning: warns on every call
AddAlwaysWarns(st, identifier, patch) ==
    [order |-> IF identifier \in DOMAIN st.patches THEN st.order
               ELSE Append(st.order, identifier),
     patches |-> Put(st.patches, identifier, patch),
     size |-> IF st.size = None THEN patch.shape[1] ELSE st.size,
     warned |-> 1]

\* add that resets _size on every call
AddResetsSize(st, identifier, patch) ==
    [order |-> IF identifier \in DOMAIN st.patches THEN st.order
               ELSE Append(st.order, identifier),
     patches |-> Put(st.patches, identifier, patch),
     size |-> patch.shape[1],
     warned |-> IF identifier \in DOMAIN st.patches THEN 1 ELSE 0]

\* add(identifier, patch): the collection afterwards, and the number of
\* warnings emitted (warned)
AddTo(st, identifier, patch) ==
    [order |-> IF identifier \in DOMAIN st.patches THEN st.order
               ELSE Append(st.order, identifier),
     patches |-> Put(st.patches, identifier, patch),
     size |-> IF st.size = None THEN patch.shape[1] ELSE st.size,
     warned |-> IF identifier \in DOMAIN st.patches THEN 1 ELSE 0]

Self == [order |-> order, patches |-> patches, size |-> size]

NoStore == [order |-> <<>>, patches |-> EmptyDict, size |-> None]

\* the patches handed to add (add checks no shape): squares and non-squares
\* of each side, and a second 1 x 1 patch to tell an overwrite by a patch of
\* equal shape
AddPatches ==
    {Full(r, r, 1) : r \in 1 .. MaxSide} \cup {Full(r, r + 1, 1) : r \in 1 .. MaxSide}
        \cup {Full(1, 1, 2)}

AddIds == {<<0, x, 0>> : x \in 0 .. MaxIdx}

\* self.add(identifier, patch)
Add(identifier, patch) ==
    LET st == AddTo(Self, identifier, patch) IN
    /\ order' = st.order
    /\ patches' = st.patches
    /\ size' = st.size
    /\ warnings' = st.warned
    /\ first' = IF first = <<>> THEN <<patch.shape>> ELSE first
    /\ op' = "add"
    /\ arg' = [identifier |-> identifier, patch |-> patch]
    /\ result' = "ok"
    /\ UNCHANGED <<out, bins, fits>>

\* cls(dict())
InitStore ==
    /\ order = <<>>
    /\ patches = EmptyDict
    /\ size = New(<<>>, EmptyDict).size
    /\ first = <<>>
    /\ op = "init"
    /\ arg = <<>>
    /\ warnings = 0
    /\ result = "ok"
    /\ out = NoStore
    /\ bins = EmptyDict
    /\ fits = EmptyDict

NextStore == \E identifier \in AddIds, patch \in AddPatches : Add(identifier, patch)

SpecStore == InitStore /\ [][NextStore]_vars


(***************************************************************************)
(* C3: add(identifier, patch) never fails and afterwards lookup of the     *)
(* identifier returns the new patch; when the identifier was present the   *)
(* call emits one overwrite warning and the number of identifiers is       *)
(* unchanged; when it was absent the call emits no warning and the number  *)
(* of identifiers grows by one.                                            *)
(***************************************************************************)
C3_AddOverwriteWarns ==
    [][op' = "add" =>
        /\ result' = "ok"
        /\ arg'.identifier \in DOMAIN patches'
        /\ patches'[arg'.identifier] = arg'.patch
        /\ IF arg'.identifier \in DOMAIN patches
           THEN warnings' = 1 /\ Length(Self)' = Length(Self)
           ELSE warnings' = 0 /\ Length(Self)' = Length(Self) + 1]_vars

\* an identifier was overwritten: a warning, and the new patch is held
C3_Witness ==
    /\ op = "add"
    /\ warnings = 1
    /\ Len(order) = 1
    /\ patches[arg.identifier] = arg.patch

(***************************************************************************)
(* C4 as stated: once a patch was added to an empty collection, _size is   *)
(* the side length of the first patch added and every patch held has that  *)
(* side length.                                                            *)
(***************************************************************************)
C4_AllPatchesShareSize ==
    first # <<>> =>
        /\ size = first[1][1]
        /\ \A identifier \in DOMAIN patches : patches[identifier].shape[1] = size

(***************************************************************************)
(* C4 amended: _size is None until the first add, from then on it is the   *)
(* first dimension of the first patch added, whatever is added or          *)
(* overwritten later (add checks no shape, so patches of other side        *)
(* lengths may be held).                                                   *)
(***************************************************************************)
C4_SizeSetByFirstAdd ==
    IF first = <<>> THEN size = None /\ DOMAIN patches = {}
    ELSE size = first[1][1]

\* a patch of another side length is held and _size is still the first one's
C4_Witness ==
    /\ first # <<>>
    /\ size = first[1][1]
    /\ \E identifier \in DOMAIN patches : patches[identifier].shape[1] # size

(***************************************************************************)
(* numpy                                                                   *)
(***************************************************************************)
\* the bound of a slice a[start:stop] of an axis of length n: a negative
\* bound counts from the end, and bounds are clipped to 0..n
SliceBound(b, n) == IF b < 0 THEN Max(b + n, 0) ELSE Min(b, n)

\* a[r0:r1, c0:c1]
Slice(a, r0, r1, c0, c1) ==
    LET rlo == SliceBound(r0, a.shape[1])
        rhi == SliceBound(r1, a.shape[1])
        clo == SliceBound(c0, a.shape[2])
        chi == SliceBound(c1, a.shape[2])
        rows == Max(rhi - rlo, 0)
        cols == Max(chi - clo, 0)
    IN  [shape |-> <<rows, cols>>,
         data |-> [p \in (0 .. rows - 1) \X (0 .. cols - 1) |->
                        a.data[<<rlo + p[1], clo + p[2]>>]]]

\* np.pad(a, ((n, n), (n, n)), mode='constant'), zero being the constant
Pad(a, n, zero) ==
    [shape |-> <<a.shape[1] + 2 * n, a.shape[2] + 2 * n>>,
     data |-> [p \in (0 .. a.shape[1] + 2 * n - 1) \X (0 .. a.shape[2] + 2 * n - 1) |->
                    IF /\ n <= p[1] /\ p[1] < n + a.shape[1]
                       /\ n <= p[2] /\ p[2] < n + a.shape[2]
                    THEN a.data[<<p[1] - n, p[2] - n>>]
                    ELSE zero]]

(***************************************************************************)
(* CoordinatePatchCollection.extract                                       *)
(***************************************************************************)
\* the window of extract without the shift by size that the padding needs
WindowUnshifted(padded, x, y, sz) == Slice(padded, x, x + sz, y, y + sz)

\* the window of extract with its two axes exchanged
WindowSwapped(padded, x, y, sz) ==
    Slice(padded, y + sz, y + 2 * sz, x + sz, x + 2 * sz)

\* padded_images[k][x+size : x+2*size, y+size : y+2*size]
Window(padded, x, y, sz) ==
    Slice(padded, x + sz, x + 2 * sz, y + sz, y + 2 * sz)

\* the loop of extract over coordinates[i..], adding to st and counting
\* the warnings
RECURSIVE ExtractLoop(_, _, _, _, _)
ExtractLoop(st, padded_images, coordinates, sz, i) ==
    IF i > Len(coordinates) THEN st
    ELSE LET coordinate == coordinates[i]
             patch == Window(padded_images[coordinate[1] + 1],
                             coordinate[2], coordinate[3], sz)
             added == AddTo(st, coordinate, patch)
         IN  ExtractLoop([added EXCEPT !.warned = st.warned + added.warned],
                         padded_images, coordinates, sz, i + 1)

\* extract(images, coordinates, size): the collection returned
ExtractOp(images, coordinates, sz) ==
    ExtractLoop(LET o == New(<<>>, EmptyDict)
                IN  [order |-> o.order, patches |-> o.patches, size |-> o.size,
                     warned |-> 0],
                [k \in 1 .. Len(images) |-> Pad(images[k], sz, 0)],
                coordinates, sz, 1)

\* an h x w image of distinct positive pixels base+1, base+2, ...
Image(h, w, base) ==
    [shape |-> <<h, w>>,
     data |-> [p \in (0 .. h - 1) \X (0 .. w - 1) |-> base + 1 + p[1] * w + p[2]]]

\* the images given to extract: two images of differing dimensions
Images == <<Image(2, 2, 0), Image(1, 2, 4)>>

\* the coordinates given to extract: any image, windows inside the image,
\* across its edges and beyond its padding on both sides
ExtractIds ==
    {<<k, x, y>> : k \in 0 .. Len(Images) - 1,
                   x \in -(MaxSize + 2) .. 3, y \in -(MaxSize + 2) .. 3}

SeqsUpTo(S, n) == UNION {[1 .. m -> S] : m \in 0 .. n}

\* out = cls.extract(images, coordinates, size); self names the collection returned
Extract(images, coordinates, sz) ==
    LET st == ExtractOp(images, coordinates, sz) IN
    /\ order' = st.order
    /\ patches' = st.patches
    /\ size' = st.size
    /\ warnings' = st.warned
    /\ first' = IF Len(st.order) > 0 THEN <<st.patches[st.order[1]].shape>> ELSE <<>>
    /\ op' = "extract"
    /\ arg' = [images |-> images, coordinates |-> coordinates, size |-> sz]
    /\ result' = "ok"
    /\ UNCHANGED <<out, bins, fits>>

NextExtract ==
    /\ op = "init"
    /\ \E coordinates \in SeqsUpTo(ExtractIds, MaxCoords), sz \in 1 .. MaxSize :
           Extract(Images, coordinates, sz)

SpecExtract == InitStore /\ [][NextExtract]_vars


\* the pixels <<i, j>> of a size x size window
Offsets(sz) == (0 .. sz - 1) \X (0 .. sz - 1)

\* pixel <<r, c>> lies inside image
Inside(image, r, c) ==
    /\ 0 <= r /\ r < image.shape[1]
    /\ 0 <= c /\ c < image.shape[2]

\* the image a coordinate names
ImageOf(images, coordinate) == images[coordinate[1] + 1]

(***************************************************************************)
(* C1 as stated: extract holds, under every coordinate it was given, a     *)
(* patch of shape size x size, wherever the window lies.                   *)
(***************************************************************************)
C1_EveryPatchSizeBySize ==
    op = "extract" =>
        \A i \in 1 .. Len(arg.coordinates) :
            /\ arg.coordinates[i] \in DOMAIN patches
            /\ patches[arg.coordinates[i]].shape = <<arg.size, arg.size>>

\* the window of coordinate starts at most size pixels outside its image on
\* either side of both axes, so that it lies inside the padded image
StartsWithinPadding(images, coordinate, sz) ==
    /\ -sz <= coordinate[2] /\ coordinate[2] <= ImageOf(images, coordinate).shape[1]
    /\ -sz <= coordinate[3] /\ coordinate[3] <= ImageOf(images, coordinate).shape[2]

(***************************************************************************)
(* C1 amended: extract holds, under every coordinate <<k, x, y>> given     *)
(* with -size <= x <= height of image k and -size <= y <= width of image   *)
(* k, a patch of shape size x size; that includes windows partly outside   *)
(* the image and windows wholly outside it that touch it.                  *)
(***************************************************************************)
C1_PatchSizeBySizeWithinPadding ==
    op = "extract" =>
        \A i \in 1 .. Len(arg.coordinates) :
            StartsWithinPadding(arg.images, arg.coordinates[i], arg.size) =>
                /\ arg.coordinates[i] \in DOMAIN patches
                /\ patches[arg.coordinates[i]].shape = <<arg.size, arg.size>>

\* a window wholly outside its image, on the positive side, was extracted
\* with the full shape
C1_Witness ==
    /\ op = "extract"
    /\ \E i \in 1 .. Len(arg.coordinates) :
        /\ arg.coordinates[i][2] = ImageOf(arg.images, arg.coordinates[i]).shape[1]
        /\ arg.coordinates[i][3] = -arg.size
        /\ arg.size = 2
        /\ patches[arg.coordinates[i]].shape = <<2, 2>>

\* the window of coordinate covers a pixel of its image and a pixel outside it
PartlyOutside(images, coordinate, sz) ==
    /\ \E o \in Offsets(sz) :
        Inside(ImageOf(images, coordinate), coordinate[2] + o[1], coordinate[3] + o[2])
    /\ \E o \in Offsets(sz) :
        ~Inside(ImageOf(images, coordinate), coordinate[2] + o[1], coordinate[3] + o[2])

(***************************************************************************)
(* C2: for every coordinate <<k, x, y>> whose window lies partly outside   *)
(* image k, the patch is held under that coordinate, is size x size, and   *)
(* its sample <<i, j>> is images[k][x+i, y+j] where that pixel is inside   *)
(* the image and 0 where it is outside.                                    *)
(***************************************************************************)
C2_EdgeWindowZeroOutside ==
    op = "extract" =>
        \A n \in 1 .. Len(arg.coordinates) :
            LET coordinate == arg.coordinates[n]
                image == ImageOf(arg.images, coordinate)
            IN  PartlyOutside(arg.images, coordinate, arg.size) =>
                    /\ coordinate \in DOMAIN patches
                    /\ patches[coordinate].shape = <<arg.size, arg.size>>
                    /\ \A o \in Offsets(arg.size) :
                        patches[coordinate].data[o] =
                            IF Inside(image, coordinate[2] + o[1], coordinate[3] + o[2])
                            THEN image.data[<<coordinate[2] + o[1], coordinate[3] + o[2]>>]
                            ELSE 0

\* a window across the negative corner of the second image: one pixel of the
\* image and three of the padding
C2_Witness ==
    /\ op = "extract"
    /\ arg.size = 2
    /\ arg.coordinates = <<(<<1, -1, -1>>)>>
    /\ patches[<<1, -1, -1>>].data[<<1, 1>>] = 5
    /\ patches[<<1, -1, -1>>].data[<<0, 0>>] = 0


(***************************************************************************)
(* Floating point values of the averaged patches: the rational <<n, d>>    *)
(* in lowest terms with d > 0, or NaN.  The pixels of the model are >= 0.  *)
(***************************************************************************)
NaN == <<0, 0>>
Zero == <<0, 1>>
IsNaN(v) == v[2] = 0

RECURSIVE GCD(_, _)
GCD(a, b) == IF b = 0 THEN a ELSE GCD(b, a % b)

Rat(n, d) == LET g == GCD(n, d) IN <<n \div g, d \div g>>

\* v / m for integers v, m with 0 <= v <= m: 0 / 0 is nan
Quotient(v, m) == IF m = 0 THEN NaN ELSE Rat(v, m)

RAdd(a, b) == Rat(a[1] * b[2] + b[1] * a[2], a[2] * b[2])

\* a / k for a float a and an integer k >= 0: 0.0 / 0 is nan
RDivInt(a, k) ==
    IF IsNaN(a) THEN NaN
    ELSE IF k = 0 THEN NaN
    ELSE Rat(a[1], a[2] * k)

RLeq(a, b) == a[1] * b[2] <= b[1] * a[2]

\* s (sorted) with v inserted
RECURSIVE Insert(_, _)
Insert(s, v) ==
    IF s = <<>> THEN <<v>>
    ELSE IF RLeq(v, s[1]) THEN <<v>> \o s
    ELSE <<s[1]>> \o Insert(Tail(s), v)

RECURSIVE Sort(_)
Sort(s) == IF s = <<>> THEN <<>> ELSE Insert(Sort(Tail(s)), s[1])

\* np.nansum of two values: a nan counts as zero
NanAdd(a, b) ==
    RAdd(IF IsNaN(a) THEN Zero ELSE a, IF IsNaN(b) THEN Zero ELSE b)

\* np.nanmedian of a non-empty sequence of values: the median of those that
\* are not nan, nan when all are
NanMedian(vals) ==
    LET s == Sort(SelectSeq(vals, LAMBDA v : ~IsNaN(v)))
        n == Len(s)
    IN  IF n = 0 THEN NaN
        ELSE IF n % 2 = 1 THEN s[(n + 1) \div 2]
        ELSE RDivInt(RAdd(s[n \div 2], s[n \div 2 + 1]), 2)

\* np.max(patch), for a patch with at least one pixel
RECURSIVE MaxOver(_, _)
MaxOver(data, dom) ==
    IF dom = {} THEN 0
    ELSE LET p == CHOOSE q \in dom : TRUE
         IN  IF dom = {p} THEN data[p] ELSE Max(data[p], MaxOver(data, dom \ {p}))

\* patch / np.max(patch)
Normalized(patch) ==
    LET m == MaxOver(patch.data, DOMAIN patch.data)
    IN  [shape |-> patch.shape,
         data |-> [p \in DOMAIN patch.data |-> Quotient(patch.data[p], m)]]

(***************************************************************************)
(* CoordinatePatchCollection.average                                       *)
(***************************************************************************)
\* a mode check that lets every mode through
ValidModeAny(mode) == TRUE

\* _validate_average_mode: TRUE when it raises no ValueError
ValidMode(mode) == mode \in {"median", "mean"}

\* a pad shape computed without the parity check
PadShapeNoParity(sz, self_size) ==
    IF sz - self_size < 0 THEN [error |-> "InvalidSizeError", pad |-> 0]
    ELSE [error |-> "ok", pad |-> (sz - self_size) \div 2]

\* _calculate_pad_shape(size): the error raised, or the pad on each side
PadShape(sz, self_size) ==
    IF sz - self_size < 0 THEN [error |-> "InvalidSizeError", pad |-> 0]
    ELSE IF (sz - self_size) % 2 # 0 THEN [error |-> "InvalidSizeError", pad |-> 0]
    ELSE [error |-> "ok", pad |-> (sz - self_size) \div 2]

\* the keys of {tuple(corner): ... for corner in corners}, in dict order
RECURSIVE CornerKeys(_)
CornerKeys(corners) ==
    IF corners = <<>> THEN <<>>
    ELSE LET before == CornerKeys(SubSeq(corners, 1, Len(corners) - 1))
             last == corners[Len(corners)]
         IN  IF \E i \in 1 .. Len(before) : before[i] = last THEN before
             ELSE Append(before, last)

\* the center of a patch taken from the target size instead of self._size
CenterOfTarget(identifier, self_size, sz) ==
    <<identifier[2] + sz \div 2, identifier[3] + sz \div 2>>

\* center_x, center_y of the patch of identifier
CenterOf(identifier, self_size, sz) ==
    <<identifier[2] + self_size \div 2, identifier[3] + self_size \div 2>>

\* x_matches * y_matches for row i of corners
InBin(center, corner, step) ==
    /\ corner[1] <= center[1] /\ center[1] < corner[1] + step
    /\ corner[2] <= center[2] /\ center[2] < corner[2] + step

\* the loop over match_indices from row i on, for one patch: the identifier
\* is appended to the bin of each matching row of corners
RECURSIVE AccumulateOne(_, _, _, _, _, _)
AccumulateOne(acc, identifier, center, corners, step, i) ==
    IF i > Len(corners) THEN acc
    ELSE AccumulateOne(
            IF InBin(center, corners[i], step)
            THEN [acc EXCEPT ![corners[i]] = Append(@, identifier)]
            ELSE acc,
            identifier, center, corners, step, i + 1)

\* the loop over self._patches.items() from the n-th item on
RECURSIVE Accumulate(_, _, _, _, _, _)
Accumulate(acc, st, corners, step, sz, n) ==
    IF n > Len(st.order) THEN acc
    ELSE Accumulate(
            AccumulateOne(acc, st.order[n], CenterOf(st.order[n], st.size, sz),
                          corners, step, 1),
            st, corners, step, sz, n + 1)

\* padded_patch of the patch of identifier
PaddedPatch(st, identifier, pad) == Pad(Normalized(st.patches[identifier]), pad, Zero)

\* mean_stack[corner] / counts[corner] after the loop: the running nansum,
\* from np.zeros((size, size)) on, over the count
RECURSIVE MeanSum(_, _, _, _, _)
MeanSum(sum, st, contributions, pad, n) ==
    IF n > Len(contributions) THEN sum
    ELSE MeanSum([sum EXCEPT !.data =
                    [p \in DOMAIN sum.data |->
                        NanAdd(sum.data[p],
                               PaddedPatch(st, contributions[n], pad).data[p])]],
                 st, contributions, pad, n + 1)

MeanOf(st, contributions, pad, sz) ==
    LET sum == MeanSum(Full(sz, sz, Zero), st, contributions, pad, 1)
    IN  [sum EXCEPT !.data = [p \in DOMAIN sum.data |->
                                    RDivInt(sum.data[p], Len(contributions))]]

\* the median of a bin without the fallback for an empty stack
MedianOfNoFallback(st, contributions, pad, sz) ==
    IF Len(contributions) > 0
    THEN LET stack == [n \in 1 .. Len(contributions) |->
                            PaddedPatch(st, contributions[n], pad)]
         IN  [shape |-> stack[1].shape,
              data |-> [p \in DOMAIN stack[1].data |->
                            NanMedian([n \in 1 .. Len(stack) |-> stack[n].data[p]])]]
    ELSE Full(sz, sz, NaN)

\* np.nanmedian(median_stack[corner], axis=0) if len(median_stack[corner]) > 0
\* else np.zeros((size, size))
MedianOf(st, contributions, pad, sz) ==
    IF Len(contributions) > 0
    THEN LET stack == [n \in 1 .. Len(contributions) |->
                            PaddedPatch(st, contributions[n], pad)]
         IN  [shape |-> stack[1].shape,
              data |-> [p \in DOMAIN stack[1].data |->
                            NanMedian([n \in 1 .. Len(stack) |-> stack[n].data[p]])]]
    ELSE Full(sz, sz, Zero)

\* averaged keys restricted to the corners that received a patch
AveragedKeysNonEmpty(keys, acc) == SelectSeq(keys, LAMBDA c : Len(acc[c]) > 0)

\* `for corner in mean_stack` / `for corner in median_stack`: every key
AveragedKeys(keys, acc) == keys

\* numpy cannot stack arrays of different shapes: the mean stacks each
\* padded patch with the running sum, the median stacks those of one bin
Ragged(st, acc, keys, pad, sz, mode) ==
    \E i \in 1 .. Len(keys) : \E n \in 1 .. Len(acc[keys[i]]) :
        PaddedPatch(st, acc[keys[i]][n], pad).shape #
            IF mode = "mean" THEN <<sz, sz>>
            ELSE PaddedPatch(st, acc[keys[i]][1], pad).shape

NoBins == EmptyDict

Raised(error) == [result |-> error, out |-> NoStore, bins |-> NoBins]

\* average(corners, step, size, mode): the exception raised or "ok", the
\* collection returned, and the identifiers accumulated per corner
AverageOp(st, corners, step, sz, mode) ==
    IF ~ValidMode(mode) THEN Raised("ValueError")
    ELSE IF st.size = None THEN Raised("TypeError")
    ELSE LET shape == PadShape(sz, st.size) IN
    IF shape.error # "ok" THEN Raised(shape.error)
    ELSE LET keys == CornerKeys(corners)
             acc == Accumulate([c \in {keys[i] : i \in 1 .. Len(keys)} |-> <<>>],
                               st, corners, step, sz, 1)
             outkeys == AveragedKeys(keys, acc)
             ids == [i \in 1 .. Len(outkeys) |-> <<None, outkeys[i][1], outkeys[i][2]>>]
         IN
    IF mode \notin {"mean", "median"} THEN Raised("UnboundLocalError")
    ELSE IF Ragged(st, acc, keys, shape.pad, sz, mode) THEN Raised("ValueError")
    ELSE LET averages ==
                [id \in {ids[i] : i \in 1 .. Len(ids)} |->
                    IF mode = "mean"
                    THEN MeanOf(st, acc[<<id[2], id[3]>>], shape.pad, sz)
                    ELSE MedianOf(st, acc[<<id[2], id[3]>>], shape.pad, sz)]
         IN  [result |-> "ok", out |-> New(ids, averages), bins |-> acc]

\* out = self.average(corners, step, size, mode)
Average(corners, step, sz, mode) ==
    LET r == AverageOp(Self, corners, step, sz, mode) IN
    /\ op' = "average"
    /\ arg' = [corners |-> corners, step |-> step, size |-> sz, mode |-> mode]
    /\ result' = r.result
    /\ out' = r.out
    /\ bins' = r.bins
    /\ warnings' = 0
    /\ UNCHANGED <<order, patches, size, first, fits>>

\* the identifiers of the collections that are averaged and fitted: windows
\* of the first image, inside it, across its edge and wholly in its padding
StoreIds == {<<0, -1, 0>>, <<0, 0, 0>>, <<0, 0, 1>>, <<0, 1, 1>>}

\* a collection as extract returns it, or the empty one
InitExtracted ==
    \E coordinates \in SeqsUpTo(StoreIds, MaxStore), sz \in 1 .. MaxSize :
        LET st == ExtractOp(Images, coordinates, sz) IN
        /\ order = st.order
        /\ patches = st.patches
        /\ size = st.size
        /\ first = IF Len(st.order) > 0 THEN <<st.patches[st.order[1]].shape>> ELSE <<>>
        /\ op = "init"
        /\ arg = <<>>
        /\ warnings = 0
        /\ result = "ok"
        /\ out = NoStore
        /\ bins = NoBins
        /\ fits = EmptyDict

Corners == {<<0, 0>>, <<1, 0>>, <<1, 1>>}
Steps == {1, 2}
Modes == {"mean", "median", "mode"}

NextAverage ==
    /\ op = "init"
    /\ \E corners \in SeqsUpTo(Corners, MaxCorners), step \in Steps,
          sz \in 1 .. MaxSize + 2, mode \in Modes :
           Average(corners, step, sz, mode)

SpecAverage == InitExtracted /\ [][NextAverage]_vars


\* the store is left as it was by the step
StoreUnchanged == <<order, patches, size>>' = <<order, patches, size>>

\* the elements of a sequence
Range(s) == {s[i] : i \in 1 .. Len(s)}

(***************************************************************************)
(* C5: average with a mode other than "mean" and "median" raises           *)
(* ValueError, whatever the store, corners, step and size are; the store's *)
(* mapping and size are unchanged and no collection is returned.           *)
(***************************************************************************)
C5_InvalidModeRaisesValueError ==
    [][(op' = "average" /\ arg'.mode \notin {"mean", "median"}) =>
        /\ result' = "ValueError"
        /\ out' = NoStore
        /\ StoreUnchanged]_vars

\* an invalid mode was refused on a store of two patches, with an
\* acceptable size
C5_Witness ==
    /\ op = "average"
    /\ arg.mode = "mode"
    /\ result = "ValueError"
    /\ Len(order) = 2
    /\ arg.size = size + 2
    /\ arg.corners # <<>>

(***************************************************************************)
(* C6: average with a valid mode on a store that has a size raises         *)
(* InvalidSizeError when size - self._size is negative or odd, with        *)
(* nothing accumulated, nothing returned and the store unchanged; when     *)
(* size - self._size is non-negative and even it raises no                 *)
(* InvalidSizeError.                                                       *)
(***************************************************************************)
C6_SizeMismatchRaisesFirst ==
    [][(op' = "average" /\ arg'.mode \in {"mean", "median"} /\ size # None) =>
        IF arg'.size - size < 0 \/ (arg'.size - size) % 2 # 0
        THEN /\ result' = "InvalidSizeError"
             /\ out' = NoStore
             /\ bins' = NoBins
             /\ StoreUnchanged
        ELSE result' # "InvalidSizeError"]_vars

\* a target size one larger than the store's was refused, in mean mode, on
\* a store whose patch lies in a bin
C6_Witness ==
    /\ op = "average"
    /\ arg.mode = "mean"
    /\ arg.size = size + 1
    /\ result = "InvalidSizeError"
    /\ \E identifier \in DOMAIN patches : \E i \in 1 .. Len(arg.corners) :
        InBin(CenterOf(identifier, size, arg.size), arg.corners[i], arg.step)

\* the arguments of the last call to average pass both validations
AverageAccepted ==
    /\ op = "average"
    /\ arg.mode \in {"mean", "median"}
    /\ size # None
    /\ arg.size - size >= 0
    /\ (arg.size - size) % 2 = 0

\* the identifiers an averaged collection holds for corners
CornerIds(corners) == {<<None, corners[i][1], corners[i][2]>> : i \in 1 .. Len(corners)}

(***************************************************************************)
(* C7 as stated: average with valid arguments returns, in both modes, a    *)
(* collection whose identifiers are exactly <<None, cx, cy>> for the       *)
(* corners given, whose patches are all size x size and whose size is the  *)
(* requested size.                                                         *)
(***************************************************************************)
C7_EveryCornerAndSize ==
    AverageAccepted =>
        /\ result = "ok"
        /\ DOMAIN out.patches = CornerIds(arg.corners)
        /\ \A id \in DOMAIN out.patches : out.patches[id].shape = <<arg.size, arg.size>>
        /\ out.size = arg.size

(***************************************************************************)
(* C7 amended: as stated, but the returned collection's size is the        *)
(* requested size only when corners is not empty; with no corners the      *)
(* returned collection is empty and its size is None.                      *)
(***************************************************************************)
C7_EveryCornerAndSizeUnlessEmpty ==
    AverageAccepted =>
        /\ result = "ok"
        /\ DOMAIN out.patches = CornerIds(arg.corners)
        /\ \A id \in DOMAIN out.patches : out.patches[id].shape = <<arg.size, arg.size>>
        /\ out.size = IF arg.corners = <<>> THEN None ELSE arg.size

\* mean mode, padded by one pixel: a corner that received a patch and a
\* corner that received none are both in the collection returned
C7_Witness ==
    /\ AverageAccepted
    /\ arg.mode = "mean"
    /\ arg.size = size + 2
    /\ \E c, d \in DOMAIN bins :
        /\ bins[c] # <<>>
        /\ bins[d] = <<>>
        /\ <<None, c[1], c[2]>> \in DOMAIN out.patches
        /\ <<None, d[1], d[2]>> \in DOMAIN out.patches

\* the patches of the store whose center lies in the bin of corner
InBinOf(corner) ==
    {identifier \in DOMAIN patches :
        /\ corner[1] <= identifier[2] + size \div 2
        /\ identifier[2] + size \div 2 < corner[1] + arg.step
        /\ corner[2] <= identifier[3] + size \div 2
        /\ identifier[3] + size \div 2 < corner[2] + arg.step}

\* the number of rows of corners equal to corner
Occurrences(corners, corner) ==
    Cardinality({i \in 1 .. Len(corners) : corners[i] = corner})

(***************************************************************************)
(* C8 as stated: a patch <<k, x, y>> is accumulated into the bin of        *)
(* corner <<cx, cy>> exactly when cx <= x + s div 2 < cx + step and        *)
(* cy <= y + s div 2 < cy + step, s being the store's size, and the        *)
(* number of contributions to each bin is the number of such patches.      *)
(***************************************************************************)
C8_BinHoldsCentersCountedOnce ==
    (AverageAccepted /\ result = "ok") =>
        /\ DOMAIN bins = Range(arg.corners)
        /\ \A corner \in DOMAIN bins :
            /\ Range(bins[corner]) = InBinOf(corner)
            /\ Len(bins[corner]) = Cardinality(InBinOf(corner))

(***************************************************************************)
(* C8 amended: as stated, but a patch is accumulated once for every row    *)
(* of corners equal to the corner, so the number of contributions to a bin *)
(* is the number of such patches times the number of occurrences of the    *)
(* corner in corners (the number of such patches when corners has no       *)
(* repeated row).                                                          *)
(***************************************************************************)
C8_BinHoldsCentersCountedPerRow ==
    (AverageAccepted /\ result = "ok") =>
        /\ DOMAIN bins = Range(arg.corners)
        /\ \A corner \in DOMAIN bins :
            /\ Range(bins[corner]) = InBinOf(corner)
            /\ Len(bins[corner]) =
                    Cardinality(InBinOf(corner)) * Occurrences(arg.corners, corner)

\* padded by one pixel, a patch lies in two overlapping bins and another
\* patch in none
C8_Witness ==
    /\ AverageAccepted
    /\ result = "ok"
    /\ arg.size = size + 2
    /\ \E c, d \in DOMAIN bins : \E identifier, other \in DOMAIN patches :
        /\ c # d
        /\ identifier \in Range(bins[c])
        /\ identifier \in Range(bins[d])
        /\ \A e \in DOMAIN bins : other \notin Range(bins[e])

Outcomes == {"converged", "failed", "raises"}

\* the names a model may declare as its parameters
ParamNames == {"amplitude", "sigma"}

\* the loop over self._patches.items() from the n-th item on: the exception
\* of the first minimize that raises leaves it, else results is returned
RECURSIVE FitLoop(_, _, _, _)
FitLoop(results, st, outcome, n) ==
    IF n > Len(st.order) THEN [result |-> "ok", fits |-> results]
    ELSE IF outcome[st.patches[st.order[n]]] = "raises"
         THEN [result |-> "MinimizeError", fits |-> EmptyDict]
         ELSE FitLoop(Put(results, st.order[n],
                          [success |-> outcome[st.patches[st.order[n]]] = "converged"]),
                      st, outcome, n + 1)

\* _fit_lmfit(base_psf, initial_guesses), parameters being
\* base_psf.parameters, guessed the keys of initial_guesses and outcome what
\* minimize does with each patch
FitOp(st, parameters, guessed, outcome) ==
    IF ~(parameters \subseteq guessed) THEN [result |-> "KeyError", fits |-> EmptyDict]
    ELSE IF st.size = None THEN [result |-> "TypeError", fits |-> EmptyDict]
    ELSE FitLoop(EmptyDict, st, outcome, 1)

\* results = self._fit_lmfit(base_psf, initial_guesses)
Fit(parameters, guessed, outcome) ==
    LET r == FitOp(Self, parameters, guessed, outcome) IN
    /\ op' = "fit"
    /\ arg' = [parameters |-> parameters, guessed |-> guessed, outcome |-> outcome]
    /\ result' = r.result
    /\ fits' = r.fits
    /\ warnings' = 0
    /\ UNCHANGED <<order, patches, size, first, out, bins>>

NextFit ==
    /\ op = "init"
    /\ \E parameters \in SUBSET ParamNames, guessed \in SUBSET ParamNames,
          outcome \in [{patches[id] : id \in DOMAIN patches} -> Outcomes] :
           Fit(parameters, guessed, outcome)

SpecFit == InitExtracted /\ [][NextFit]_vars

(***************************************************************************)
(* C10: when the guesses cover the parameters and the store has a size,    *)
(* _fit_lmfit reports, for every patch whose own minimization does not     *)
(* raise, the result of that minimization, whatever the minimization of    *)
(* any other patch does.                                                   *)
(***************************************************************************)
C10_FailureIsolatedPerPatch ==
    (op = "fit" /\ arg.parameters \subseteq arg.guessed /\ size # None) =>
        \A identifier \in DOMAIN patches :
            arg.outcome[patches[identifier]] # "raises" =>
                /\ identifier \in DOMAIN fits
                /\ fits[identifier].success =
                        (arg.outcome[patches[identifier]] = "converged")

====
